---- MODULE Spec2Model ----
(***************************************************************************)
(* State-machine model of sys::SystemManagerCommon                         *)
(* (module-sys/SystemManager/SystemManagerCommon.cpp): the service         *)
(* registry, the close / update / restore rounds, the pending-ack          *)
(* register with its watchdog, the battery policy and the two control      *)
(* loops of Run().                                                         *)
(***************************************************************************)
EXTENDS Integers, Sequences, FiniteSets, TLC

(***************************************************************************)
(* Bounds of the exploration.                                              *)
(***************************************************************************)
\* longest service registry explored
MaxServices == 2
\* capacity of the system manager's mailbox
MaxMailbox == 1
\* largest number of system service descriptors explored
MaxCreators == 3
\* longest pending-ack register explored (the vector itself is unbounded)
MaxRegister == MaxServices + 1

(***************************************************************************)
(* Service names of namespace service::name.                               *)
(***************************************************************************)
evt_manager == "evt_manager"
service_desktop == "service_desktop"
gui == "gui"
db == "db"
eink == "eink"
appmgr == "appmgr"
cellular == "cellular"

\* names of the services that are started in the explored runs
ServiceNames == {evt_manager, db, cellular}

(***************************************************************************)
(* sys::state whitelists.                                                  *)
(***************************************************************************)
update_whitelist == {service_desktop, evt_manager, gui, db, eink, appmgr}

restore_whitelist == {service_desktop, evt_manager, gui, eink, appmgr}

regularClose_whitelist == {evt_manager}

isOnWhitelist(list, serviceName) == serviceName \in list

\* the whitelist a destroy pass is called with
WhitelistOf(name) ==
    CASE name = "update" -> update_whitelist
      [] name = "restore" -> restore_whitelist
      [] name = "regularClose" -> regularClose_whitelist
      [] OTHER -> {}

(***************************************************************************)
(* Enumerations.                                                           *)
(***************************************************************************)
States == {"Running", "Shutdown", "ShutdownReady", "Reboot", "RebootToUpdate"}

LevelStates == {"Normal", "Shutdown", "CriticalCharging", "CriticalNotCharging"}

\* Store::Battery::State; the code only compares with Discharging
BatteryStates == {"Discharging", "Charging"}

UpdateReasons == {"Update", "Recovery"}

\* phone_modes::PhoneMode and phone_modes::Tethering
PhoneModes == {"Connected", "DoNotDisturb", "Offline"}

TetheringModes == {"On", "Off"}

Codes == {"CloseSystem", "Update", "Restore", "Reboot", "RebootToUpdate"}

(***************************************************************************)
(* Messages that reach the system manager's mailbox.                       *)
(***************************************************************************)
Msg(t, s, c, u) == [type |-> t, sender |-> s, code |-> c, updateReason |-> u]

SystemManagerCmds ==
    {Msg("SystemManagerCmd", appmgr, c, "None") : c \in Codes \ {"RebootToUpdate"}}
        \cup {Msg("SystemManagerCmd", appmgr, "RebootToUpdate", u) : u \in UpdateReasons}

EventManagerMessages ==
    {Msg(t, evt_manager, "None", "None") :
        t \in {"BatteryStateChangeMessage", "BatteryStatusChangeMessage",
               "KbdMessage", "BatteryBrownoutMessage"}}

ApplicationMessages ==
    {Msg(t, appmgr, "None", "None") : t \in {"UserPowerDownRequest", "CheckIfStartAllowedMessage"}}

ReadyToCloseMessages ==
    {Msg("ReadyToCloseMessage", s, "None", "None") : s \in ServiceNames}

\* the requests about the phone mode and tethering; code carries the requested mode
PhoneModeMessages ==
    {Msg("PhoneModeRequest", evt_manager, m, "None") : m \in PhoneModes}
        \cup {Msg("TetheringStateRequest", appmgr, t, "None") : t \in TetheringModes}
        \cup {Msg("TetheringEnabledResponse", appmgr, "None", "None")}

Messages == SystemManagerCmds \cup EventManagerMessages \cup ApplicationMessages
                \cup ReadyToCloseMessages

(***************************************************************************)
(* Sequence helpers.                                                       *)
(***************************************************************************)
\* std::reverse
Reverse(s) == [i \in 1..Len(s) |-> s[Len(s) + 1 - i]]

\* variant: std::find + erase, only the first element equal to v is removed
EraseFirst(register, v) ==
    IF \E i \in 1..Len(register) : register[i] = v
    THEN LET k == CHOOSE i \in 1..Len(register) :
                      register[i] = v /\ \A j \in 1..(i - 1) : register[j] # v
         IN [j \in 1..(Len(register) - 1) |-> IF j < k THEN register[j] ELSE register[j + 1]]
    ELSE register

\* std::remove + erase: every element equal to v is removed
EraseRemove(register, v) == SelectSeq(register, LAMBDA n : n # v)

VARIABLES
    state,                              \* SystemManagerCommon::state
    pc,                                 \* position of Run()
    mailbox,                            \* messages waiting in the mailbox
    servicesList,                       \* names of the services in servicesList
    readyForCloseRegister,              \* names awaiting a ready-to-close ack
    servicesPreShutdownRoutineTimeout,  \* the watchdog timer is active
    lowBatteryShutdownDelay,            \* the low-battery timer is active
    levelState,                         \* Store::Battery::get().levelState
    batteryState,                       \* Store::Battery::get().state
    updateReason,                       \* SystemManagerCommon::updateReason
    startOrder,                         \* log: registered services in the order of their start
    closeRound,                         \* log: close-reason broadcast of the last step
    destroyPass,                        \* log: DestroyServices pass of the last step
    shutdownLevelClosed,                \* log: a battery message closed at this Shutdown level
    powerAction,                        \* log: power primitive invoked by Run()
    powerReason,                        \* log: update reason passed to the primitive
    ignored,                            \* log: sender of the last message ignored on shutdown
    systemServiceCreators,              \* descriptors of the system services, as declared
    sortedServices,                     \* result of depGraph.sort()
    postStartRoutineRun,                \* log: postStartRoutine() has run
    startHandshake,                     \* log: codes of the last Start request
    serviceDestroyMutex,                \* thread that holds serviceDestroyMutex
    iteration,                          \* loop over servicesList the system manager is in
    callerPc,                           \* position of another thread in DestroySystemService
    interfered,                         \* log: servicesList changed under a running loop
    startAllowed,                       \* log: StartAllowedMessage sent in the last step
    effects,                            \* log: other messages and calls of the last step
    phoneMode,                          \* phoneModeSubject: the phone mode
    tethering                           \* phoneModeSubject: the tethering mode

vars == <<state, pc, mailbox, servicesList, readyForCloseRegister,
          servicesPreShutdownRoutineTimeout, lowBatteryShutdownDelay, levelState,
          batteryState, updateReason, startOrder, closeRound, destroyPass,
          shutdownLevelClosed, powerAction, powerReason, ignored,
          systemServiceCreators, sortedServices, postStartRoutineRun, startHandshake,
          serviceDestroyMutex, iteration, callerPc, interfered, startAllowed, effects,
          phoneMode, tethering>>

\* the state of phoneModeSubject
PhoneModeSubject == <<phoneMode, tethering>>

\* the guards of servicesList and the threads that are inside its operations
Guarded == <<serviceDestroyMutex, iteration, callerPc, interfered>>

NoIteration == [operation |-> "None", position |-> 0, whitelist |-> "None"]

\* the state of StartSystemServices()
Startup == <<systemServiceCreators, sortedServices, postStartRoutineRun, startHandshake>>

NoHandshake == [first |-> "None", retCode |-> "None"]

NoRound == [reason |-> "None", notified |-> <<>>]

NoPass ==
    [whitelist |-> "None", notReported |-> <<>>, before |-> <<>>, exits |-> <<>>,
     failed |-> <<>>, kills |-> <<>>]

Init ==
    /\ state = "Running"
    /\ pc = "Running"
    /\ mailbox = <<>>
    /\ servicesList = <<>>
    /\ readyForCloseRegister = <<>>
    /\ servicesPreShutdownRoutineTimeout = FALSE
    /\ lowBatteryShutdownDelay = FALSE
    /\ levelState \in LevelStates
    /\ batteryState \in BatteryStates
    /\ updateReason = "None"
    /\ startOrder = <<>>
    /\ closeRound = NoRound
    /\ destroyPass = NoPass
    /\ shutdownLevelClosed = FALSE
    /\ powerAction = "None"
    /\ powerReason = "None"
    /\ ignored = "None"
    /\ systemServiceCreators = <<>>
    /\ sortedServices = <<>>
    /\ postStartRoutineRun = TRUE
    /\ startHandshake = NoHandshake
    /\ serviceDestroyMutex = "None"
    /\ iteration = NoIteration
    /\ callerPc = "Idle"
    /\ interfered = FALSE
    /\ startAllowed = "None"
    /\ effects = <<>>
    /\ phoneMode = "Connected"
    /\ tethering = "Off"

(***************************************************************************)
(* set(State) followed by the loop conditions of Run(): where Run()        *)
(* continues once a handler has returned.                                  *)
(***************************************************************************)
\* variant: Run() has no loop for state Shutdown
NextPcSingleLoop(s) ==
    IF s = "Running" THEN "Running" ELSE "PowerOff"

NextPc(s) ==
    IF s = "Running" THEN "Running"
    ELSE IF s = "Shutdown" THEN "ShutdownCheck"
    ELSE "PowerOff"

(***************************************************************************)
(* RequestServiceClose: the synchronous Exit request to the service at     *)
(* position i of the visited list succeeds unless it is one of those that  *)
(* time out or report a failure.                                           *)
(***************************************************************************)
RequestServiceClose(i, failing) == i \notin failing

(***************************************************************************)
(* DestroyServices(whitelist): one pass over servicesList.  i is the       *)
(* position reached in list; acc collects the entries that stay (kept),    *)
(* the Exit requests sent (exits) and the hard kills (kills).              *)
(***************************************************************************)
\* variant: a service that had to be killed is not erased from the list
RECURSIVE DestroyLoopKilledStays(_, _, _, _, _)
DestroyLoopKilledStays(list, i, whitelist, failing, acc) ==
    IF i > Len(list) THEN acc
    ELSE IF isOnWhitelist(whitelist, list[i])
         THEN DestroyLoopKilledStays(list, i + 1, whitelist, failing,
                                     [acc EXCEPT !.kept = Append(@, list[i])])
         ELSE DestroyLoopKilledStays(list, i + 1, whitelist, failing,
                  IF i \notin failing
                  THEN [acc EXCEPT !.exits = Append(@, list[i])]
                  ELSE [acc EXCEPT !.exits = Append(@, list[i]),
                                   !.kills = Append(@, list[i]),
                                   !.kept = Append(@, list[i])])

\* variant: a service whose Exit request failed is erased without the hard kill
RECURSIVE DestroyLoopNeverKills(_, _, _, _, _)
DestroyLoopNeverKills(list, i, whitelist, failing, acc) ==
    IF i > Len(list) THEN acc
    ELSE IF isOnWhitelist(whitelist, list[i])
         THEN DestroyLoopNeverKills(list, i + 1, whitelist, failing,
                                    [acc EXCEPT !.kept = Append(@, list[i])])
         ELSE DestroyLoopNeverKills(list, i + 1, whitelist, failing,
                                    [acc EXCEPT !.exits = Append(@, list[i])])

RECURSIVE DestroyLoop(_, _, _, _, _)
DestroyLoop(list, i, whitelist, failing, acc) ==
    IF i > Len(list) THEN acc
    ELSE IF isOnWhitelist(whitelist, list[i])
         THEN DestroyLoop(list, i + 1, whitelist, failing,
                          [acc EXCEPT !.kept = Append(@, list[i])])
         ELSE DestroyLoop(list, i + 1, whitelist, failing,
                          [acc EXCEPT !.exits = Append(@, list[i]),
                                      !.kills = IF RequestServiceClose(i, failing)
                                                THEN @ ELSE Append(@, list[i])])

\* the services, in the order visited, whose Exit request timed out or reported a failure
RECURSIVE FailedRequests(_, _, _)
FailedRequests(list, i, failing) ==
    IF i > Len(list) THEN <<>>
    ELSE IF RequestServiceClose(i, failing)
         THEN FailedRequests(list, i + 1, failing)
         ELSE <<list[i]>> \o FailedRequests(list, i + 1, failing)

DestroyServices(list, whitelist, failing) ==
    LET r == DestroyLoop(list, 1, whitelist, failing,
                         [kept |-> <<>>, exits |-> <<>>, kills |-> <<>>])
    IN [kept |-> r.kept, exits |-> r.exits, kills |-> r.kills,
        failed |-> FailedRequests(list, 1, failing)]

\* the positions of list whose Exit request may fail in a pass with this whitelist
MayFail(list, whitelist) ==
    SUBSET {i \in 1..Len(list) : ~isOnWhitelist(whitelist, list[i])}

\* what a pass does: the names logged as not reported, the list it visits, its requests
PassLog(name, pending, list, r) ==
    [whitelist |-> name, notReported |-> pending, before |-> list,
     exits |-> r.exits, failed |-> r.failed, kills |-> r.kills]

\* the start-order log once only the services of kept are registered
StartedAmong(kept) == SelectSeq(startOrder, LAMBDA n : \E i \in 1..Len(kept) : kept[i] = n)

(***************************************************************************)
(* preCloseRoutine: broadcast of the close reason, one pending entry per   *)
(* registered service, and a new, started watchdog timer.                  *)
(***************************************************************************)
preCloseRoutine(closeReason, list) ==
    /\ closeRound' = [reason |-> closeReason, notified |-> list]
    /\ startAllowed' = "None"
    /\ effects' = <<>>
    /\ readyForCloseRegister' = readyForCloseRegister \o list
    /\ servicesPreShutdownRoutineTimeout' = TRUE

(***************************************************************************)
(* CloseSystemHandler: stop the low-battery timer, reverse the registry,   *)
(* then preCloseRoutine.                                                   *)
(***************************************************************************)
CloseSystemHandler(closeReason) ==
    /\ Len(readyForCloseRegister) + Len(servicesList) <= MaxRegister
    /\ lowBatteryShutdownDelay' = FALSE
    /\ servicesList' = Reverse(servicesList)
    /\ preCloseRoutine(closeReason, Reverse(servicesList))

(***************************************************************************)
(* CloseServices: log the names that did not report, clear the register,   *)
(* destroy every service that is not on the regular-close whitelist,       *)
(* set(Shutdown).                                                          *)
(***************************************************************************)
\* variant: the register is not cleared
CloseServicesKeepsRegister ==
    \E failing \in MayFail(servicesList, regularClose_whitelist) :
        LET r == DestroyServices(servicesList, regularClose_whitelist, failing) IN
        /\ readyForCloseRegister' = readyForCloseRegister
        /\ servicesList' = r.kept
        /\ startOrder' = StartedAmong(r.kept)
        /\ destroyPass' = PassLog("regularClose", readyForCloseRegister, servicesList, r)
        /\ state' = "Shutdown"

\* variant: the services that did not report are left out of the destroy pass
CloseServicesSkipsPending ==
    LET spared == regularClose_whitelist
                      \cup {readyForCloseRegister[i] : i \in 1..Len(readyForCloseRegister)} IN
    \E failing \in MayFail(servicesList, spared) :
        LET r == DestroyServices(servicesList, spared, failing) IN
        /\ readyForCloseRegister' = <<>>
        /\ servicesList' = r.kept
        /\ startOrder' = StartedAmong(r.kept)
        /\ destroyPass' = PassLog("regularClose", readyForCloseRegister, servicesList, r)
        /\ state' = "Shutdown"

\* CloseServices() called when the register holds the names of pending
CloseServicesWith(pending) ==
    \E failing \in MayFail(servicesList, regularClose_whitelist) :
        LET r == DestroyServices(servicesList, regularClose_whitelist, failing) IN
        /\ readyForCloseRegister' = <<>>
        /\ servicesList' = r.kept
        /\ startOrder' = StartedAmong(r.kept)
        /\ destroyPass' = PassLog("regularClose", pending, servicesList, r)
        /\ state' = "Shutdown"

CloseServices == CloseServicesWith(readyForCloseRegister)

(***************************************************************************)
(* UpdateSystemHandler / RestoreSystemHandler: reverse the registry and    *)
(* destroy the services that are not on the round's whitelist.             *)
(***************************************************************************)
\* variant: the update round starts with the close-reason broadcast and destroys nothing yet
UpdateSystemHandlerBroadcasts ==
    /\ Len(readyForCloseRegister) + Len(servicesList) <= MaxRegister
    /\ servicesList' = Reverse(servicesList)
    /\ preCloseRoutine("Update", Reverse(servicesList))
    /\ destroyPass' = NoPass
    /\ UNCHANGED <<state, lowBatteryShutdownDelay, updateReason, startOrder,
                   shutdownLevelClosed>>

UpdateSystemHandler ==
    \E failing \in MayFail(Reverse(servicesList), update_whitelist) :
        LET r == DestroyServices(Reverse(servicesList), update_whitelist, failing) IN
        /\ servicesList' = r.kept
        /\ startOrder' = StartedAmong(r.kept)
        /\ destroyPass' = PassLog("update", <<>>, Reverse(servicesList), r)
        /\ closeRound' = NoRound
        /\ startAllowed' = "None"
        /\ effects' = <<>>
        /\ UNCHANGED <<state, readyForCloseRegister, servicesPreShutdownRoutineTimeout,
                       lowBatteryShutdownDelay, updateReason, shutdownLevelClosed>>

RestoreSystemHandler ==
    \E failing \in MayFail(Reverse(servicesList), restore_whitelist) :
        LET r == DestroyServices(Reverse(servicesList), restore_whitelist, failing) IN
        /\ servicesList' = r.kept
        /\ startOrder' = StartedAmong(r.kept)
        /\ destroyPass' = PassLog("restore", <<>>, Reverse(servicesList), r)
        /\ closeRound' = NoRound
        /\ startAllowed' = "None"
        /\ effects' = <<>>
        /\ UNCHANGED <<state, readyForCloseRegister, servicesPreShutdownRoutineTimeout,
                       lowBatteryShutdownDelay, updateReason, shutdownLevelClosed>>

(***************************************************************************)
(* RebootHandler: CloseSystemHandler(Reboot), set(state), and the update   *)
(* reason when the command carries one.                                    *)
(***************************************************************************)
\* variant: the update reason of the command is not stored
RebootHandlerDropsReason(newState, reason) ==
    /\ CloseSystemHandler("Reboot")
    /\ state' = newState
    /\ destroyPass' = NoPass
    /\ UNCHANGED <<updateReason, startOrder, shutdownLevelClosed>>

RebootHandler(newState, reason) ==
    /\ CloseSystemHandler("Reboot")
    /\ state' = newState
    /\ updateReason' = IF reason # "None" THEN reason ELSE updateReason
    /\ destroyPass' = NoPass
    /\ UNCHANGED <<startOrder, shutdownLevelClosed>>

(***************************************************************************)
(* The handlers that only start a close round.                             *)
(***************************************************************************)
CloseRequest(closeReason) ==
    /\ CloseSystemHandler(closeReason)
    /\ destroyPass' = NoPass
    /\ UNCHANGED <<state, updateReason, startOrder, shutdownLevelClosed>>

NoEffect ==
    /\ closeRound' = NoRound
    /\ startAllowed' = "None"
    /\ effects' = <<>>
    /\ destroyPass' = NoPass
    /\ UNCHANGED <<state, servicesList, readyForCloseRegister,
                   servicesPreShutdownRoutineTimeout, lowBatteryShutdownDelay,
                   updateReason, startOrder, shutdownLevelClosed>>

(***************************************************************************)
(* readyToCloseHandler.                                                    *)
(***************************************************************************)
\* variant: an acknowledgment is handled whenever the watchdog is active,
\* the register being empty or not
readyToCloseHandlerEmptyRegister(sender) ==
    IF servicesPreShutdownRoutineTimeout
    THEN IF EraseRemove(readyForCloseRegister, sender) = <<>>
         THEN /\ servicesPreShutdownRoutineTimeout' = FALSE
              /\ CloseServicesWith(EraseRemove(readyForCloseRegister, sender))
              /\ closeRound' = NoRound
              /\ startAllowed' = "None"
              /\ effects' = <<>>
              /\ UNCHANGED <<lowBatteryShutdownDelay, updateReason, shutdownLevelClosed>>
         ELSE /\ readyForCloseRegister' = EraseRemove(readyForCloseRegister, sender)
              /\ closeRound' = NoRound
              /\ startAllowed' = "None"
              /\ effects' = <<>>
              /\ destroyPass' = NoPass
              /\ UNCHANGED <<state, servicesList, servicesPreShutdownRoutineTimeout,
                             lowBatteryShutdownDelay, updateReason, startOrder,
                             shutdownLevelClosed>>
    ELSE NoEffect

readyToCloseHandler(sender) ==
    IF readyForCloseRegister # <<>> /\ servicesPreShutdownRoutineTimeout
    THEN IF EraseRemove(readyForCloseRegister, sender) = <<>>
         THEN /\ servicesPreShutdownRoutineTimeout' = FALSE
              /\ CloseServicesWith(EraseRemove(readyForCloseRegister, sender))
              /\ closeRound' = NoRound
              /\ startAllowed' = "None"
              /\ effects' = <<>>
              /\ UNCHANGED <<lowBatteryShutdownDelay, updateReason, shutdownLevelClosed>>
         ELSE /\ readyForCloseRegister' = EraseRemove(readyForCloseRegister, sender)
              /\ closeRound' = NoRound
              /\ startAllowed' = "None"
              /\ effects' = <<>>
              /\ destroyPass' = NoPass
              /\ UNCHANGED <<state, servicesList, servicesPreShutdownRoutineTimeout,
                             lowBatteryShutdownDelay, updateReason, startOrder,
                             shutdownLevelClosed>>
    ELSE NoEffect

(***************************************************************************)
(* The handler connected to BatteryStateChangeMessage in postStartRoutine, *)
(* and the actions it chooses from by the battery level.                   *)
(***************************************************************************)
batteryShutdownLevelAction ==
    /\ CloseSystemHandler("LowBattery")
    /\ shutdownLevelClosed' = TRUE
    /\ destroyPass' = NoPass
    /\ UNCHANGED <<state, updateReason, startOrder>>

\* CellularServiceAPI::ChangeModulePowerState
ChangeModulePowerState(powerState) == <<cellular, "ChangeModulePowerState", powerState>>

\* the notification sent to the application manager
CriticalBatteryLevelNotification(isCritical, charging) ==
    <<appmgr, "CriticalBatteryLevelNotification",
      IF ~isCritical THEN "cleared" ELSE IF charging THEN "charging" ELSE "notCharging">>

\* a handler that only sends: no part of the system manager's state changes
SendsOnly(sent) ==
    /\ effects' = sent
    /\ closeRound' = NoRound
    /\ startAllowed' = "None"
    /\ destroyPass' = NoPass
    /\ UNCHANGED <<state, servicesList, readyForCloseRegister,
                   servicesPreShutdownRoutineTimeout, lowBatteryShutdownDelay,
                   updateReason, startOrder, shutdownLevelClosed>>

batteryCriticalLevelAction(charging) ==
    SendsOnly(<<ChangeModulePowerState("Off"), CriticalBatteryLevelNotification(TRUE, charging)>>)

batteryNormalLevelAction ==
    SendsOnly(<<ChangeModulePowerState("On"), CriticalBatteryLevelNotification(FALSE, FALSE)>>)

\* variant: the charging flag of the two critical levels is swapped
BatteryStateChangeHandlerSwapsFlag ==
    CASE levelState = "Normal" -> batteryNormalLevelAction
      [] levelState = "Shutdown" -> batteryShutdownLevelAction
      [] levelState = "CriticalCharging" -> batteryCriticalLevelAction(FALSE)
      [] levelState = "CriticalNotCharging" -> batteryCriticalLevelAction(TRUE)

BatteryStateChangeHandler ==
    CASE levelState = "Normal" -> batteryNormalLevelAction
      [] levelState = "Shutdown" -> batteryShutdownLevelAction
      [] levelState = "CriticalCharging" -> batteryCriticalLevelAction(TRUE)
      [] levelState = "CriticalNotCharging" -> batteryCriticalLevelAction(FALSE)

(***************************************************************************)
(* The handlers connected in InitHandler.                                  *)
(***************************************************************************)
SystemManagerCmdHandler(msg) ==
    CASE msg.code = "CloseSystem" -> CloseRequest("RegularPowerDown")
      [] msg.code = "Update" -> UpdateSystemHandler
      [] msg.code = "Restore" -> RestoreSystemHandler
      [] msg.code = "Reboot" -> RebootHandler("Reboot", "None")
      [] msg.code = "RebootToUpdate" -> RebootHandler("RebootToUpdate", msg.updateReason)
      [] OTHER -> NoEffect

BatteryStatusChangeHandler ==
    /\ state' = IF state = "Shutdown" /\ batteryState = "Discharging"
                THEN "ShutdownReady" ELSE state
    /\ closeRound' = NoRound
    /\ startAllowed' = "None"
    /\ effects' = <<>>
    /\ destroyPass' = NoPass
    /\ UNCHANGED <<servicesList, readyForCloseRegister, servicesPreShutdownRoutineTimeout,
                   lowBatteryShutdownDelay, updateReason, startOrder, shutdownLevelClosed>>

\* variant: the red key reboots in every state
KbdHandlerAnyState ==
    /\ state' = "Reboot"
    /\ closeRound' = NoRound
    /\ startAllowed' = "None"
    /\ effects' = <<>>
    /\ destroyPass' = NoPass
    /\ UNCHANGED <<servicesList, readyForCloseRegister, servicesPreShutdownRoutineTimeout,
                   lowBatteryShutdownDelay, updateReason, startOrder, shutdownLevelClosed>>

\* variant: the red key ends the shutdown instead of rebooting
KbdHandlerShutdownReady ==
    /\ state' = IF state = "Shutdown" THEN "ShutdownReady" ELSE state
    /\ closeRound' = NoRound
    /\ startAllowed' = "None"
    /\ effects' = <<>>
    /\ destroyPass' = NoPass
    /\ UNCHANGED <<servicesList, readyForCloseRegister, servicesPreShutdownRoutineTimeout,
                   lowBatteryShutdownDelay, updateReason, startOrder, shutdownLevelClosed>>

KbdHandler ==
    /\ state' = IF state = "Shutdown" THEN "Reboot" ELSE state
    /\ closeRound' = NoRound
    /\ startAllowed' = "None"
    /\ effects' = <<>>
    /\ destroyPass' = NoPass
    /\ UNCHANGED <<servicesList, readyForCloseRegister, servicesPreShutdownRoutineTimeout,
                   lowBatteryShutdownDelay, updateReason, startOrder, shutdownLevelClosed>>

\* lowBatteryShutdownDelay.start()
TimerStart == <<"lowBatteryShutdownDelay", "start", "None">>

\* the verdict sent to the application manager for a battery level
StartupType(level) ==
    CASE level = "Normal" -> "Regular"
      [] level = "Shutdown" -> "LowBattery"
      [] level = "CriticalNotCharging" -> "LowBattery"
      [] level = "CriticalCharging" -> "LowBatteryCharging"

\* variant: the timer is started again although it is active
CheckIfStartAllowedHandlerRestarts ==
    /\ lowBatteryShutdownDelay' =
           IF levelState = "Shutdown" THEN TRUE ELSE lowBatteryShutdownDelay
    /\ startAllowed' = StartupType(levelState)
    /\ effects' = IF levelState = "Shutdown" THEN <<TimerStart>> ELSE <<>>
    /\ closeRound' = NoRound
    /\ destroyPass' = NoPass
    /\ UNCHANGED <<state, servicesList, readyForCloseRegister,
                   servicesPreShutdownRoutineTimeout, updateReason, startOrder,
                   shutdownLevelClosed>>

\* variant: the Shutdown level does not fall through to the LowBattery verdict
CheckIfStartAllowedHandlerNoFallthrough ==
    /\ lowBatteryShutdownDelay' =
           IF levelState = "Shutdown" THEN TRUE ELSE lowBatteryShutdownDelay
    /\ startAllowed' = IF levelState = "Shutdown" THEN "None" ELSE StartupType(levelState)
    /\ effects' = IF levelState = "Shutdown" /\ ~lowBatteryShutdownDelay
                  THEN <<TimerStart>> ELSE <<>>
    /\ closeRound' = NoRound
    /\ destroyPass' = NoPass
    /\ UNCHANGED <<state, servicesList, readyForCloseRegister,
                   servicesPreShutdownRoutineTimeout, updateReason, startOrder,
                   shutdownLevelClosed>>

CheckIfStartAllowedHandler ==
    /\ lowBatteryShutdownDelay' =
           IF levelState = "Shutdown" THEN TRUE ELSE lowBatteryShutdownDelay
    /\ startAllowed' = StartupType(levelState)
    /\ effects' = IF levelState = "Shutdown" /\ ~lowBatteryShutdownDelay
                  THEN <<TimerStart>> ELSE <<>>
    /\ closeRound' = NoRound
    /\ destroyPass' = NoPass
    /\ UNCHANGED <<state, servicesList, readyForCloseRegister,
                   servicesPreShutdownRoutineTimeout, updateReason, startOrder,
                   shutdownLevelClosed>>

\* msg->Execute(this)
Execute(msg) ==
    CASE msg.type = "SystemManagerCmd" -> SystemManagerCmdHandler(msg)
      [] msg.type = "BatteryStateChangeMessage" -> BatteryStateChangeHandler
      [] msg.type = "BatteryStatusChangeMessage" -> BatteryStatusChangeHandler
      [] msg.type = "KbdMessage" -> KbdHandler
      [] msg.type = "BatteryBrownoutMessage" -> CloseRequest("SystemBrownout")
      [] msg.type = "UserPowerDownRequest" -> CloseRequest("RegularPowerDown")
      [] msg.type = "ReadyToCloseMessage" -> readyToCloseHandler(msg.sender)
      [] msg.type = "CheckIfStartAllowedMessage" -> CheckIfStartAllowedHandler

\* the variables that no handler of the system manager writes
Environment == <<levelState, batteryState, powerAction, powerReason, ignored,
                 systemServiceCreators, sortedServices, postStartRoutineRun, startHandshake,
                 serviceDestroyMutex, iteration, callerPc, interfered,
                 phoneMode, tethering>>

\* what a step that is not a handler leaves alone, the logs being reset
Idle ==
    /\ closeRound' = NoRound
    /\ startAllowed' = "None"
    /\ effects' = <<>>
    /\ destroyPass' = NoPass
    /\ UNCHANGED <<readyForCloseRegister, servicesPreShutdownRoutineTimeout,
                   lowBatteryShutdownDelay, updateReason>>

(***************************************************************************)
(* Run(): the loop of state Running.                                       *)
(***************************************************************************)
RunningLoop ==
    /\ pc = "Running"
    /\ mailbox # <<>>
    /\ Execute(Head(mailbox))
    /\ mailbox' = Tail(mailbox)
    /\ pc' = NextPc(state')
    /\ UNCHANGED Environment

(***************************************************************************)
(* Run(): the loop of state Shutdown, first the check of the battery       *)
(* state, then the blocking pop.                                           *)
(***************************************************************************)
\* variant: the loop waits for a message whatever the battery state
ShutdownCheckAlwaysPops ==
    /\ pc = "ShutdownCheck"
    /\ state' = state
    /\ pc' = "ShutdownPop"
    /\ closeRound' = NoRound
    /\ startAllowed' = "None"
    /\ effects' = <<>>
    /\ destroyPass' = NoPass
    /\ UNCHANGED <<mailbox, servicesList, startOrder, shutdownLevelClosed,
                   readyForCloseRegister, servicesPreShutdownRoutineTimeout,
                   lowBatteryShutdownDelay, updateReason, levelState, batteryState,
                   powerAction, powerReason, ignored>>
    /\ UNCHANGED Startup
    /\ UNCHANGED Guarded
    /\ UNCHANGED PhoneModeSubject

ShutdownCheck ==
    /\ pc = "ShutdownCheck"
    /\ IF batteryState = "Discharging"
       THEN state' = "ShutdownReady" /\ pc' = "PowerOff"
       ELSE state' = state /\ pc' = "ShutdownPop"
    /\ Idle
    /\ UNCHANGED <<mailbox, servicesList, startOrder, shutdownLevelClosed>>
    /\ UNCHANGED Environment

\* variant: the sender is logged but the message is executed all the same
ShutdownPopIgnoredExecutes ==
    /\ pc = "ShutdownPop"
    /\ mailbox # <<>>
    /\ Head(mailbox).sender # evt_manager
    /\ Execute(Head(mailbox))
    /\ mailbox' = Tail(mailbox)
    /\ pc' = NextPc(state')
    /\ ignored' = Head(mailbox).sender
    /\ UNCHANGED <<levelState, batteryState, powerAction, powerReason>>
    /\ UNCHANGED Startup
    /\ UNCHANGED Guarded
    /\ UNCHANGED PhoneModeSubject

ShutdownPopIgnored ==
    /\ pc = "ShutdownPop"
    /\ mailbox # <<>>
    /\ Head(mailbox).sender # evt_manager
    /\ mailbox' = Tail(mailbox)
    /\ pc' = "ShutdownCheck"
    /\ ignored' = Head(mailbox).sender
    /\ Idle
    /\ UNCHANGED <<state, servicesList, startOrder, shutdownLevelClosed>>
    /\ UNCHANGED <<levelState, batteryState, powerAction, powerReason>>
    /\ UNCHANGED Startup
    /\ UNCHANGED Guarded
    /\ UNCHANGED PhoneModeSubject

ShutdownPopExecute ==
    /\ pc = "ShutdownPop"
    /\ mailbox # <<>>
    /\ Head(mailbox).sender = evt_manager
    /\ Execute(Head(mailbox))
    /\ mailbox' = Tail(mailbox)
    /\ pc' = NextPc(state')
    /\ UNCHANGED Environment

\* mailbox.pop() returned no message
ShutdownPopEmpty ==
    /\ pc = "ShutdownPop"
    /\ mailbox = <<>>
    /\ pc' = "ShutdownCheck"
    /\ Idle
    /\ UNCHANGED <<state, mailbox, servicesList, startOrder, shutdownLevelClosed>>
    /\ UNCHANGED Environment

(***************************************************************************)
(* Timer callbacks.  A timer callback is delivered to the system manager   *)
(* as a message of its own and runs in the loop of state Running.          *)
(***************************************************************************)
\* variant: the watchdog's callback also runs once Run() has left its loops
WatchdogTimeoutAfterLoops ==
    /\ pc \in {"Running", "PowerOff"}
    /\ servicesPreShutdownRoutineTimeout
    /\ CloseServices
    /\ closeRound' = NoRound
    /\ startAllowed' = "None"
    /\ effects' = <<>>
    /\ pc' = NextPc(state')
    /\ UNCHANGED <<mailbox, servicesPreShutdownRoutineTimeout, lowBatteryShutdownDelay,
                   updateReason, shutdownLevelClosed>>
    /\ UNCHANGED Environment

WatchdogTimeout ==
    /\ pc = "Running"
    /\ servicesPreShutdownRoutineTimeout
    /\ CloseServices
    /\ closeRound' = NoRound
    /\ startAllowed' = "None"
    /\ effects' = <<>>
    /\ pc' = NextPc(state')
    /\ UNCHANGED <<mailbox, servicesPreShutdownRoutineTimeout, lowBatteryShutdownDelay,
                   updateReason, shutdownLevelClosed>>
    /\ UNCHANGED Environment

LowBatteryTimeout ==
    /\ pc = "Running"
    /\ lowBatteryShutdownDelay
    /\ CloseRequest("LowBattery")
    /\ UNCHANGED <<pc, mailbox>>
    /\ UNCHANGED Environment

(***************************************************************************)
(* RunSystemService: the service is appended to the registry, then         *)
(* started.                                                                *)
(***************************************************************************)
RunSystemService(name) ==
    /\ pc # "Done"
    /\ Len(servicesList) < MaxServices
    /\ servicesList' = Append(servicesList, name)
    /\ startOrder' = Append(startOrder, name)
    /\ Idle
    /\ UNCHANGED <<state, pc, mailbox, shutdownLevelClosed>>
    /\ UNCHANGED Environment

(***************************************************************************)
(* DestroySystemService: the entry is erased only when the Exit request    *)
(* succeeded and the name is registered.                                   *)
(***************************************************************************)
FindService(list, name) ==
    IF \E i \in 1..Len(list) : list[i] = name
    THEN CHOOSE i \in 1..Len(list) :
            /\ list[i] = name
            /\ \A j \in 1..(i - 1) : list[j] # name
    ELSE 0

EraseAt(list, i) == [j \in 1..(Len(list) - 1) |-> IF j < i THEN list[j] ELSE list[j + 1]]

\* variant: the entry is erased whether the Exit request succeeded or not
DestroySystemServiceErasesAnyway(list, name, closed) ==
    IF FindService(list, name) # 0
    THEN EraseAt(list, FindService(list, name))
    ELSE list

DestroySystemService(list, name, closed) ==
    IF closed /\ FindService(list, name) # 0
    THEN EraseAt(list, FindService(list, name))
    ELSE list

\* the value DestroySystemService returns
DestroySystemServiceReturns(list, name, closed) == closed /\ FindService(list, name) # 0

Returned(value) == <<"DestroySystemService", "returned", IF value THEN "true" ELSE "false">>

(***************************************************************************)
(* Run() after the two loops: the event manager is destroyed and the       *)
(* platform power primitive chosen by the state is invoked.                *)
(***************************************************************************)
PowerOff ==
    /\ pc = "PowerOff"
    /\ \E closed \in BOOLEAN :
           /\ servicesList' = DestroySystemService(servicesList, evt_manager, closed)
           /\ startOrder' = DestroySystemService(startOrder, evt_manager, closed)
           /\ effects' = <<Returned(DestroySystemServiceReturns(servicesList, evt_manager, closed))>>
    /\ powerAction' = CASE state = "Reboot" -> "Reboot"
                        [] state = "ShutdownReady" -> "PowerOff"
                        [] state = "RebootToUpdate" -> "RebootToUpdate"
                        [] OTHER -> "exit"
    /\ powerReason' = IF state = "RebootToUpdate" THEN updateReason ELSE "None"
    /\ pc' = "Done"
    /\ closeRound' = NoRound
    /\ startAllowed' = "None"
    /\ destroyPass' = NoPass
    /\ UNCHANGED <<readyForCloseRegister, servicesPreShutdownRoutineTimeout,
                   lowBatteryShutdownDelay, updateReason>>
    /\ UNCHANGED <<state, mailbox, levelState, batteryState, shutdownLevelClosed, ignored>>
    /\ UNCHANGED Startup
    /\ UNCHANGED Guarded
    /\ UNCHANGED PhoneModeSubject

(***************************************************************************)
(* The environment: services that send messages, and the battery store     *)
(* written by the event manager.  Once Run() has left its loops it reads   *)
(* neither the mailbox nor the store.                                      *)
(***************************************************************************)
InLoops == pc \in {"Running", "ShutdownCheck", "ShutdownPop"}

Send(msg) ==
    /\ InLoops
    /\ Len(mailbox) < MaxMailbox
    /\ mailbox' = Append(mailbox, msg)
    /\ Idle
    /\ UNCHANGED <<state, pc, servicesList, startOrder, shutdownLevelClosed>>
    /\ UNCHANGED Environment

BatteryLevelChange(level) ==
    /\ InLoops
    /\ level # levelState
    /\ levelState' = level
    /\ shutdownLevelClosed' = FALSE
    /\ Idle
    /\ UNCHANGED <<state, pc, mailbox, servicesList, startOrder, batteryState, powerAction,
                   powerReason, ignored>>
    /\ UNCHANGED Startup
    /\ UNCHANGED Guarded
    /\ UNCHANGED PhoneModeSubject

BatteryStatusChange(status) ==
    /\ InLoops
    /\ status # batteryState
    /\ batteryState' = status
    /\ Idle
    /\ UNCHANGED <<state, pc, mailbox, servicesList, startOrder, levelState,
                   shutdownLevelClosed, powerAction, powerReason, ignored>>
    /\ UNCHANGED Startup
    /\ UNCHANGED Guarded
    /\ UNCHANGED PhoneModeSubject

Next ==
    \/ RunningLoop
    \/ ShutdownCheck
    \/ ShutdownPopIgnored
    \/ ShutdownPopExecute
    \/ ShutdownPopEmpty
    \/ PowerOff
    \/ WatchdogTimeout
    \/ LowBatteryTimeout
    \/ \E name \in ServiceNames : RunSystemService(name)
    \/ \E msg \in Messages : Send(msg)
    \/ \E level \in LevelStates : BatteryLevelChange(level)
    \/ \E status \in BatteryStates : BatteryStatusChange(status)

Spec == Init /\ [][Next]_vars

(***************************************************************************)
(* Run() keeps taking its steps, and the watchdog timer message is         *)
(* eventually delivered.                                                   *)
(***************************************************************************)
Fairness ==
    /\ WF_vars(RunningLoop)
    /\ WF_vars(ShutdownCheck)
    /\ WF_vars(ShutdownPopIgnored)
    /\ WF_vars(ShutdownPopExecute)
    /\ WF_vars(ShutdownPopEmpty)
    /\ WF_vars(PowerOff)
    /\ WF_vars(WatchdogTimeout)

FairSpec == Spec /\ Fairness

(***************************************************************************)
(* initialize(): StartSystemServices().  The descriptors name their        *)
(* dependencies; DependencyGraph::sort() orders them.                      *)
(***************************************************************************)
ServiceDescriptors == [name : ServiceNames, dependencies : SUBSET ServiceNames]

\* the declared descriptors: up to MaxCreators of them, each name once
CreatorLists ==
    UNION {{c \in [1..k -> ServiceDescriptors] :
                \A i, j \in 1..k : c[i].name = c[j].name => i = j} : k \in 0..MaxCreators}

ElementsOf(order) == {order[i] : i \in 1..Len(order)}

\* the first node, in declaration order, with no dependency left to place
FirstReady(remaining, order) ==
    LET ready == {i \in 1..Len(remaining) : remaining[i].dependencies \subseteq ElementsOf(order)}
    IN IF ready = {} THEN 0 ELSE CHOOSE i \in ready : \A j \in ready : i <= j

\* topological ordering by in-degree, declaration order among the ready nodes
RECURSIVE TopologicalSort(_, _)
TopologicalSort(remaining, order) ==
    IF remaining = <<>> THEN [sorted |-> TRUE, order |-> order]
    ELSE IF FirstReady(remaining, order) = 0 THEN [sorted |-> FALSE, order |-> <<>>]
    ELSE LET k == FirstReady(remaining, order)
         IN TopologicalSort([j \in 1..(Len(remaining) - 1) |->
                                 IF j < k THEN remaining[j] ELSE remaining[j + 1]],
                            Append(order, remaining[k].name))

\* variant: the return code of the response is not looked at
RunServiceIgnoresRetCode(first, retCode) == first = "Success"

\* RunService: the service counts as started when the Start request and the
\* return code of its response are both Success
RunService(first, retCode) == first = "Success" /\ retCode = "Success"

StartupFrame ==
    /\ closeRound' = NoRound
    /\ startAllowed' = "None"
    /\ effects' = <<>>
    /\ destroyPass' = NoPass
    /\ UNCHANGED <<state, mailbox, readyForCloseRegister, servicesPreShutdownRoutineTimeout,
                   lowBatteryShutdownDelay, levelState, batteryState, updateReason,
                   shutdownLevelClosed, powerAction, powerReason, ignored,
                   systemServiceCreators>>
    /\ UNCHANGED Guarded
    /\ UNCHANGED PhoneModeSubject

\* variant: after a failed sort the services are started as declared
SortServicesStartsAnyway ==
    /\ pc = "StartSystemServices"
    /\ LET r == TopologicalSort(systemServiceCreators, <<>>) IN
           sortedServices' = IF r.sorted THEN r.order
                             ELSE [i \in 1..Len(systemServiceCreators) |->
                                       systemServiceCreators[i].name]
    /\ pc' = "StartServices"
    /\ StartupFrame
    /\ UNCHANGED <<servicesList, startOrder, postStartRoutineRun, startHandshake>>

\* depGraph.sort(); a failed sort ends StartSystemServices()
SortServices ==
    /\ pc = "StartSystemServices"
    /\ LET r == TopologicalSort(systemServiceCreators, <<>>) IN
           /\ sortedServices' = r.order
           /\ pc' = IF r.sorted THEN "StartServices" ELSE "SortError"
    /\ StartupFrame
    /\ UNCHANGED <<servicesList, startOrder, postStartRoutineRun, startHandshake>>

\* one iteration of the for_each: RunSystemService of the next sorted service
StartService ==
    /\ pc = "StartServices"
    /\ Len(servicesList) < Len(sortedServices)
    /\ \E first \in {"Success", "Timeout"}, retCode \in {"Success", "Failure"} :
           LET service == sortedServices[Len(servicesList) + 1] IN
           /\ servicesList' = Append(servicesList, service)
           /\ startHandshake' = [first |-> first, retCode |-> retCode]
           /\ IF RunService(first, retCode)
              THEN startOrder' = Append(startOrder, service) /\ pc' = pc
              ELSE startOrder' = startOrder /\ pc' = "SystemInitialisationError"
    /\ StartupFrame
    /\ UNCHANGED <<sortedServices, postStartRoutineRun>>

\* every service has started: postStartRoutine(), then Run() enters its loop
PostStart ==
    /\ pc = "StartServices"
    /\ Len(servicesList) = Len(sortedServices)
    /\ postStartRoutineRun' = TRUE
    /\ pc' = "Running"
    /\ StartupFrame
    /\ UNCHANGED <<servicesList, startOrder, sortedServices, startHandshake>>

StartInit ==
    /\ state = "Running"
    /\ pc = "StartSystemServices"
    /\ mailbox = <<>>
    /\ servicesList = <<>>
    /\ readyForCloseRegister = <<>>
    /\ servicesPreShutdownRoutineTimeout = FALSE
    /\ lowBatteryShutdownDelay = FALSE
    /\ levelState = "Normal"
    /\ batteryState = "Charging"
    /\ updateReason = "None"
    /\ startOrder = <<>>
    /\ closeRound = NoRound
    /\ destroyPass = NoPass
    /\ shutdownLevelClosed = FALSE
    /\ powerAction = "None"
    /\ powerReason = "None"
    /\ ignored = "None"
    /\ systemServiceCreators \in CreatorLists
    /\ sortedServices = <<>>
    /\ postStartRoutineRun = FALSE
    /\ startHandshake = NoHandshake
    /\ serviceDestroyMutex = "None"
    /\ iteration = NoIteration
    /\ callerPc = "Idle"
    /\ interfered = FALSE
    /\ startAllowed = "None"
    /\ effects = <<>>
    /\ phoneMode = "Connected"
    /\ tethering = "Off"

StartNext ==
    \/ SortServices
    \/ StartService
    \/ PostStart

StartSpec == StartInit /\ [][StartNext]_vars

(***************************************************************************)
(* The operations on servicesList at the grain of their guards.  The       *)
(* system manager's thread runs DestroyServices (under serviceDestroyMutex,*)
(* blocking in each Exit request) and CloseSystemHandler (the reversal in  *)
(* a critical section, the loop of preCloseRoutine under no guard); another*)
(* thread calls RunSystemService (the append in a critical section) and    *)
(* DestroySystemService (under serviceDestroyMutex).  A critical section   *)
(* is one step.  Once the list has changed under a running loop the loop's *)
(* iterator is invalid and it may continue anywhere.                       *)
(***************************************************************************)
GuardFrame ==
    /\ closeRound' = NoRound
    /\ startAllowed' = "None"
    /\ effects' = <<>>
    /\ destroyPass' = NoPass
    /\ UNCHANGED <<pc, mailbox, updateReason, shutdownLevelClosed>>
    /\ UNCHANGED <<levelState, batteryState, powerAction, powerReason, ignored>>
    /\ UNCHANGED Startup
    /\ UNCHANGED PhoneModeSubject

\* the element the loop looks at: its position, or any once the iterator is invalid
Visited(i) ==
    /\ i \in 1..Len(servicesList)
    /\ ~interfered => i = iteration.position

\* UpdateSystemHandler, RestoreSystemHandler, CloseServices up to the first
\* iteration of DestroyServices: the mutex is taken
DestroyServicesLock(name) ==
    /\ state = "Running"
    /\ iteration = NoIteration
    /\ serviceDestroyMutex = "None"
    /\ name = "regularClose" => servicesPreShutdownRoutineTimeout
    /\ servicesList' = IF name = "regularClose" THEN servicesList ELSE Reverse(servicesList)
    /\ readyForCloseRegister' = IF name = "regularClose" THEN <<>> ELSE readyForCloseRegister
    /\ serviceDestroyMutex' = "SystemManager"
    /\ iteration' = [operation |-> "DestroyServices", position |-> 1, whitelist |-> name]
    /\ GuardFrame
    /\ UNCHANGED <<state, startOrder, servicesPreShutdownRoutineTimeout,
                   lowBatteryShutdownDelay, callerPc, interfered>>

\* one iteration of DestroyServices: skip a whitelisted service, or request
\* its exit (killing it on failure) and erase it
DestroyServicesVisit ==
    /\ iteration.operation = "DestroyServices"
    /\ \E i \in 1..Len(servicesList) :
           /\ Visited(i)
           /\ IF isOnWhitelist(WhitelistOf(iteration.whitelist), servicesList[i])
              THEN /\ iteration' = [iteration EXCEPT !.position = i + 1]
                   /\ UNCHANGED <<servicesList, startOrder>>
              ELSE /\ iteration' = [iteration EXCEPT !.position = i]
                   /\ servicesList' = EraseAt(servicesList, i)
                   /\ startOrder' = DestroySystemService(startOrder, servicesList[i], TRUE)
    /\ GuardFrame
    /\ UNCHANGED <<state, readyForCloseRegister, servicesPreShutdownRoutineTimeout,
                   lowBatteryShutdownDelay, serviceDestroyMutex, callerPc, interfered>>

\* the loop of DestroyServices ends, the mutex is released; CloseServices
\* then sets Shutdown
DestroyServicesUnlock ==
    /\ iteration.operation = "DestroyServices"
    /\ iteration.position > Len(servicesList) \/ interfered
    /\ serviceDestroyMutex' = "None"
    /\ iteration' = NoIteration
    /\ state' = IF iteration.whitelist = "regularClose" THEN "Shutdown" ELSE state
    /\ GuardFrame
    /\ UNCHANGED <<servicesList, startOrder, readyForCloseRegister,
                   servicesPreShutdownRoutineTimeout, lowBatteryShutdownDelay, callerPc,
                   interfered>>

\* CloseSystemHandler up to the first iteration of preCloseRoutine
PreCloseBegin ==
    /\ state = "Running"
    /\ iteration = NoIteration
    /\ Len(readyForCloseRegister) + Len(servicesList) <= MaxRegister
    /\ lowBatteryShutdownDelay' = FALSE
    /\ servicesList' = Reverse(servicesList)
    /\ iteration' = [operation |-> "preCloseRoutine", position |-> 1, whitelist |-> "None"]
    /\ GuardFrame
    /\ UNCHANGED <<state, startOrder, readyForCloseRegister,
                   servicesPreShutdownRoutineTimeout, serviceDestroyMutex, callerPc,
                   interfered>>

\* one iteration of preCloseRoutine: the close reason is sent, the name is pending
PreCloseVisit ==
    /\ iteration.operation = "preCloseRoutine"
    /\ Len(readyForCloseRegister) < MaxRegister
    /\ \E i \in 1..Len(servicesList) :
           /\ Visited(i)
           /\ readyForCloseRegister' = Append(readyForCloseRegister, servicesList[i])
           /\ iteration' = [iteration EXCEPT !.position = i + 1]
    /\ GuardFrame
    /\ UNCHANGED <<state, servicesList, startOrder, servicesPreShutdownRoutineTimeout,
                   lowBatteryShutdownDelay, serviceDestroyMutex, callerPc, interfered>>

\* the loop of preCloseRoutine ends, the watchdog timer is started
PreCloseEnd ==
    /\ iteration.operation = "preCloseRoutine"
    /\ iteration.position > Len(servicesList) \/ interfered
    /\ servicesPreShutdownRoutineTimeout' = TRUE
    /\ iteration' = NoIteration
    /\ GuardFrame
    /\ UNCHANGED <<state, servicesList, startOrder, readyForCloseRegister,
                   lowBatteryShutdownDelay, serviceDestroyMutex, callerPc, interfered>>

\* another thread: RunSystemService, the append inside its critical section
CallerRunSystemService(name) ==
    /\ callerPc = "Idle"
    /\ Len(servicesList) < MaxServices
    /\ servicesList' = Append(servicesList, name)
    /\ startOrder' = Append(startOrder, name)
    /\ interfered' = (interfered \/ iteration # NoIteration)
    /\ GuardFrame
    /\ UNCHANGED <<state, readyForCloseRegister, servicesPreShutdownRoutineTimeout,
                   lowBatteryShutdownDelay, serviceDestroyMutex, iteration, callerPc>>

\* another thread: DestroySystemService takes the mutex and sends the Exit request
CallerDestroyLock ==
    /\ callerPc = "Idle"
    /\ serviceDestroyMutex = "None"
    /\ serviceDestroyMutex' = "Caller"
    /\ callerPc' = "RequestServiceClose"
    /\ GuardFrame
    /\ UNCHANGED <<state, servicesList, startOrder, readyForCloseRegister,
                   servicesPreShutdownRoutineTimeout, lowBatteryShutdownDelay, iteration,
                   interfered>>

\* another thread: the Exit request has returned; find, erase, release the mutex
CallerDestroyUnlock(name, closed) ==
    /\ callerPc = "RequestServiceClose"
    /\ servicesList' = DestroySystemService(servicesList, name, closed)
    /\ startOrder' = DestroySystemService(startOrder, name, closed)
    /\ interfered' = (interfered \/ (iteration # NoIteration /\ servicesList' # servicesList))
    /\ serviceDestroyMutex' = "None"
    /\ callerPc' = "Idle"
    /\ GuardFrame
    /\ UNCHANGED <<state, readyForCloseRegister, servicesPreShutdownRoutineTimeout,
                   lowBatteryShutdownDelay, iteration>>

GuardNext ==
    \/ \E name \in {"update", "restore", "regularClose"} : DestroyServicesLock(name)
    \/ DestroyServicesVisit
    \/ DestroyServicesUnlock
    \/ PreCloseBegin
    \/ PreCloseVisit
    \/ PreCloseEnd
    \/ \E name \in ServiceNames : CallerRunSystemService(name)
    \/ CallerDestroyLock
    \/ \E name \in ServiceNames, closed \in BOOLEAN : CallerDestroyUnlock(name, closed)

\* the battery store plays no part in these operations
GuardInit ==
    /\ Init
    /\ levelState = "Normal"
    /\ batteryState = "Charging"

GuardSpec == GuardInit /\ [][GuardNext]_vars

(***************************************************************************)
(* Phone mode and tethering: the handlers of PhoneModeRequest,             *)
(* TetheringStateRequest and TetheringEnabledResponse, run by the loop of  *)
(* state Running.  They write phoneModeSubject only.                       *)
(***************************************************************************)
\* phoneModeSubject->setTetheringMode(mode): tells whether the mode changed
setTetheringMode(mode) == tethering # mode

\* a message sent with bus.sendUnicast
Unicast(message, target) == <<target, message, "None">>

handlePhoneModeRequest(request) ==
    IF tethering = "On"
    THEN /\ effects' = <<Unicast("TetheringPhoneModeChangeProhibitedMessage", appmgr)>>
         /\ UNCHANGED PhoneModeSubject
    ELSE /\ phoneMode' = request.code
         /\ effects' = <<>>
         /\ UNCHANGED tethering

\* variant: a request to turn tethering on is applied at once
handleTetheringStateRequestAppliesOn(request) ==
    IF levelState # "Normal"
    THEN /\ effects' = <<>>
         /\ UNCHANGED PhoneModeSubject
    ELSE IF request.code = "On"
    THEN /\ effects' = <<Unicast("TetheringQuestionRequest", appmgr)>>
         /\ tethering' = "On"
         /\ UNCHANGED phoneMode
    ELSE /\ tethering' = "Off"
         /\ effects' = IF ~setTetheringMode("Off")
                        THEN <<Unicast("TetheringQuestionAbort", appmgr)>>
                        ELSE <<Unicast("RequestPhoneModeForceUpdate", evt_manager)>>
         /\ UNCHANGED phoneMode

handleTetheringStateRequest(request) ==
    IF levelState # "Normal"
    THEN /\ effects' = <<>>
         /\ UNCHANGED PhoneModeSubject
    ELSE IF request.code = "On"
    THEN /\ effects' = <<Unicast("TetheringQuestionRequest", appmgr)>>
         /\ UNCHANGED PhoneModeSubject
    ELSE /\ tethering' = "Off"
         /\ effects' = IF ~setTetheringMode("Off")
                        THEN <<Unicast("TetheringQuestionAbort", appmgr)>>
                        ELSE <<Unicast("RequestPhoneModeForceUpdate", evt_manager)>>
         /\ UNCHANGED phoneMode

enableTethering ==
    /\ tethering' = "On"
    /\ effects' = <<>>
    /\ UNCHANGED phoneMode

ExecutePhoneMode(msg) ==
    CASE msg.type = "PhoneModeRequest" -> handlePhoneModeRequest(msg)
      [] msg.type = "TetheringStateRequest" -> handleTetheringStateRequest(msg)
      [] msg.type = "TetheringEnabledResponse" -> enableTethering

\* Run(): the loop of state Running pops one of these requests
PhoneModeLoop ==
    /\ pc = "Running"
    /\ mailbox # <<>>
    /\ ExecutePhoneMode(Head(mailbox))
    /\ mailbox' = Tail(mailbox)
    /\ closeRound' = NoRound
    /\ startAllowed' = "None"
    /\ destroyPass' = NoPass
    /\ UNCHANGED <<state, pc, servicesList, readyForCloseRegister,
                   servicesPreShutdownRoutineTimeout, lowBatteryShutdownDelay,
                   updateReason, startOrder, shutdownLevelClosed>>
    /\ UNCHANGED <<levelState, batteryState, powerAction, powerReason, ignored>>
    /\ UNCHANGED Startup
    /\ UNCHANGED Guarded

PhoneModeNext ==
    \/ PhoneModeLoop
    \/ \E msg \in PhoneModeMessages : Send(msg)
    \/ \E level \in LevelStates : BatteryLevelChange(level)

PhoneModeSpec == Init /\ [][PhoneModeNext]_vars

(***************************************************************************)
(* Properties.                                                             *)
(***************************************************************************)
InSeq(n, s) == \E i \in 1..Len(s) : s[i] = n

\* the step pops the message at the head of the mailbox and executes its handler
Executes(type) ==
    /\ mailbox # <<>>
    /\ Head(mailbox).type = type
    /\ mailbox' = Tail(mailbox)
    /\ \/ pc = "Running"
       \/ pc = "ShutdownPop" /\ Head(mailbox).sender = evt_manager

\* C1: after a destroy pass with whitelist W (update, restore or regular
\* close) the registry holds exactly the services that were registered
\* before the pass and whose names are in W, in unchanged relative order.
C1_WhitelistPreservation ==
    destroyPass.whitelist # "None" =>
        servicesList = SelectSeq(destroyPass.before,
                                 LAMBDA n : n \in WhitelistOf(destroyPass.whitelist))

\* an update pass that keeps a service and kills another
C1_Witness ==
    /\ destroyPass.whitelist = "update"
    /\ destroyPass.kills # <<>>
    /\ servicesList # <<>>

\* C2: in every close round started by CloseSystemHandler the close-reason
\* notifications go to the registered services in exactly the reverse of
\* the order in which those services were started.
C2_LifoTeardown ==
    closeRound.reason # "None" => closeRound.notified = Reverse(startOrder)

\* C3: whenever a close request (CloseSystem command, user power-down, low
\* battery, brownout) has been handled while the state is Running, the
\* state eventually becomes Shutdown.
C3_CloseReachesShutdown ==
    (state = "Running" /\ closeRound.reason \in {"RegularPowerDown", "LowBattery", "SystemBrownout"})
        ~> (state = "Shutdown")

\* C4: the step that takes the state from Running to Reboot or
\* RebootToUpdate ends with the pending-ack register empty and with every
\* service that is not on the regular-close whitelist destroyed.
C4_RebootAfterFullClose ==
    [][(state = "Running" /\ state' \in {"Reboot", "RebootToUpdate"}) =>
          /\ readyForCloseRegister' = <<>>
          /\ \A i \in 1..Len(servicesList') : servicesList'[i] \in regularClose_whitelist]_vars

\* C5: a battery-state-change message that arrives while the level is still
\* Shutdown, after such a message has already started a close at this
\* level, starts no other close round.
C5_OneClosePerShutdownLevel ==
    [][(Executes("BatteryStateChangeMessage") /\ levelState = "Shutdown" /\ shutdownLevelClosed) =>
          /\ closeRound'.reason = "None"
          /\ UNCHANGED <<servicesList, readyForCloseRegister>>]_vars

\* C6 as stated: with a red-key message of the event manager at the head of
\* the mailbox, the state leaves Shutdown only for Reboot, whatever the
\* battery state.
C6_KbdAlwaysReboots ==
    [][(state = "Shutdown" /\ mailbox # <<>> /\ Head(mailbox).type = "KbdMessage"
            /\ state' # state) => state' = "Reboot"]_vars

\* C6: a red-key message that the Shutdown loop pops and executes moves the
\* state to Reboot; when the loop finds the battery discharging the state
\* becomes ShutdownReady and the message is left in the mailbox.
C6_KbdHandledReboots ==
    [][/\ (state = "Shutdown" /\ Executes("KbdMessage")) => state' = "Reboot"
       /\ (state = "Shutdown" /\ pc = "ShutdownCheck" /\ batteryState = "Discharging"
              /\ mailbox # <<>> /\ Head(mailbox).type = "KbdMessage" /\ pc' # pc) =>
             (state' = "ShutdownReady" /\ mailbox' = mailbox)]_vars

\* Reboot reached without a reboot command: the round was closed by the
\* last acknowledgment, then the red key was handled in Shutdown
C6_Witness ==
    /\ state = "Reboot"
    /\ pc = "PowerOff"
    /\ ~servicesPreShutdownRoutineTimeout

C8_AckIdempotence ==
    [][\A s \in ServiceNames :
          (Executes("ReadyToCloseMessage") /\ Head(mailbox).sender = s) =>
              /\ ~InSeq(s, readyForCloseRegister')
              /\ readyForCloseRegister' = SelectSeq(readyForCloseRegister, LAMBDA n : n # s)
              /\ ~InSeq(s, readyForCloseRegister) =>
                     /\ UNCHANGED <<readyForCloseRegister, servicesList, state>>
                     /\ destroyPass' = NoPass]_vars

\* cellular has acknowledged, the event manager is still pending
C8_Witness ==
    /\ state = "Running"
    /\ servicesList = <<cellular, evt_manager>>
    /\ readyForCloseRegister = <<evt_manager>>
    /\ servicesPreShutdownRoutineTimeout

\* C9: when CloseServices runs with a non-empty register (the watchdog has
\* fired) the register is cleared, the destroy pass of the regular-close
\* whitelist has run and the state is Shutdown.
C9_WatchdogEscalation ==
    destroyPass.notReported # <<>> =>
        /\ readyForCloseRegister = <<>>
        /\ destroyPass.whitelist = "regularClose"
        /\ \A i \in 1..Len(servicesList) : servicesList[i] \in regularClose_whitelist
        /\ \A i \in 1..Len(destroyPass.before) :
               destroyPass.before[i] \in regularClose_whitelist
                   \/ InSeq(destroyPass.before[i], destroyPass.exits)
        /\ state = "Shutdown"
        /\ pc = "ShutdownCheck"

C9_Witness ==
    /\ destroyPass.notReported # <<>>
    /\ destroyPass.exits # <<>>
    /\ state = "Shutdown"

\* C10 as stated: the services still pending when the watchdog fires get no
\* Exit request, are not killed and stay in the registry.
C10_PendingExcluded ==
    \A i \in 1..Len(destroyPass.notReported) :
        LET n == destroyPass.notReported[i] IN
        InSeq(n, destroyPass.before) =>
            /\ ~InSeq(n, destroyPass.exits)
            /\ ~InSeq(n, destroyPass.kills)
            /\ InSeq(n, servicesList)

\* C10: a service still pending when the watchdog fires is left alone only
\* if it is on the regular-close whitelist; any other gets the Exit request
\* and is erased from the registry.
C10_PendingDestroyed ==
    \A i \in 1..Len(destroyPass.notReported) :
        LET n == destroyPass.notReported[i] IN
        InSeq(n, destroyPass.before) =>
            IF n \in regularClose_whitelist
            THEN ~InSeq(n, destroyPass.exits) /\ InSeq(n, servicesList)
            ELSE InSeq(n, destroyPass.exits) /\ ~InSeq(n, servicesList)

\* a pending service was killed, a pending whitelisted one stayed
C10_Witness ==
    /\ InSeq(cellular, destroyPass.notReported)
    /\ InSeq(cellular, destroyPass.kills)
    /\ InSeq(evt_manager, destroyPass.notReported)
    /\ InSeq(evt_manager, servicesList)

\* C11: in a destroy pass every service that is not on the whitelist gets
\* exactly one Exit request, in the order visited; the hard kill is invoked
\* on exactly the services whose request failed; every service that got the
\* request is gone from the registry when the pass ends, killed or not.
C11_ExitOnceKillOnFailure ==
    destroyPass.whitelist # "None" =>
        /\ destroyPass.exits =
               SelectSeq(destroyPass.before,
                         LAMBDA n : n \notin WhitelistOf(destroyPass.whitelist))
        /\ destroyPass.kills = destroyPass.failed
        /\ \A i \in 1..Len(destroyPass.exits) : ~InSeq(destroyPass.exits[i], servicesList)

\* an update round in which one service answered and another never did
C11_Witness ==
    /\ destroyPass.whitelist = "update"
    /\ Len(destroyPass.exits) = 2
    /\ Len(destroyPass.kills) = 1
    /\ servicesList = <<>>

\* the step executes an Update or a Restore command
ExecutesRound(code) ==
    Executes("SystemManagerCmd") /\ Head(mailbox).code = code

C13_TerminalStateValid ==
    /\ pc \in {"PowerOff", "Done"} => state \in {"ShutdownReady", "Reboot", "RebootToUpdate"}
    /\ powerAction # "exit"

\* Run() has gone through both loops and powered off
C13_Witness ==
    /\ pc = "Done"
    /\ state = "ShutdownReady"
    /\ powerAction = "PowerOff"

\* C14: Run() invokes one power primitive, when it leaves its loops, and
\* never another: reboot for Reboot, power-off for ShutdownReady,
\* reboot-to-update for RebootToUpdate; the reason passed to
\* reboot-to-update is the one carried by the RebootToUpdate command that
\* set the state, which nothing overwrites afterwards.
C14_HandOff ==
    [][/\ (pc = "PowerOff" /\ pc' = "Done") =>
              /\ powerAction = "None"
              /\ state = "Reboot" => powerAction' = "Reboot"
              /\ state = "ShutdownReady" => powerAction' = "PowerOff"
              /\ state = "RebootToUpdate" =>
                     (powerAction' = "RebootToUpdate" /\ powerReason' = updateReason)
       /\ powerAction # "None" => UNCHANGED <<powerAction, powerReason>>
       /\ (pc' = "Done") = (powerAction' # "None")
       /\ (Executes("SystemManagerCmd") /\ Head(mailbox).code = "RebootToUpdate") =>
              (state' = "RebootToUpdate" /\ updateReason' = Head(mailbox).updateReason)
       /\ state = "RebootToUpdate" => UNCHANGED <<state, updateReason>>]_vars

\* the updater was entered with the reason of the command
C14_Witness ==
    /\ pc = "Done"
    /\ powerAction = "RebootToUpdate"
    /\ powerReason = "Recovery"

\* C15: in state Shutdown a message whose sender is not the event manager
\* is taken from the mailbox and dropped: the state, the registry, the
\* pending-ack register and both timers stay as they are, no close round
\* starts and no destroy pass runs.
C15_ForeignSenderDropped ==
    [][(state = "Shutdown" /\ mailbox # <<>> /\ Head(mailbox).sender # evt_manager
            /\ mailbox' = Tail(mailbox)) =>
          /\ UNCHANGED <<state, servicesList, readyForCloseRegister,
                         servicesPreShutdownRoutineTimeout, lowBatteryShutdownDelay,
                         updateReason>>
          /\ closeRound' = NoRound
          /\ destroyPass' = NoPass]_vars

\* a message of the application manager was ignored on shutdown
C15_Witness ==
    /\ state = "Shutdown"
    /\ ignored = appmgr
    /\ pc = "ShutdownCheck"

IsPrefix(s, t) == Len(s) <= Len(t) /\ \A i \in 1..Len(s) : s[i] = t[i]

\* C16: the system services are started one at a time in the sorted order;
\* a service counts as started exactly when its Start request and the
\* return code of the response are both Success; the first service that
\* fails ends the startup with SystemInitialisationError: every service
\* before it has started, none after it is started or registered, and
\* postStartRoutine has not run; postStartRoutine runs only when all have
\* started.
C16_StartupAllOrNothing ==
    /\ IsPrefix(startOrder, sortedServices)
    /\ IsPrefix(servicesList, sortedServices)
    /\ startHandshake # NoHandshake =>
           (pc = "SystemInitialisationError")
               = ~(startHandshake.first = "Success" /\ startHandshake.retCode = "Success")
    /\ pc = "SystemInitialisationError" =>
           /\ ~postStartRoutineRun
           /\ Len(servicesList) = Len(startOrder) + 1
    /\ pc = "StartServices" => servicesList = startOrder
    /\ postStartRoutineRun => startOrder = sortedServices

\* the second of three services answered the Start request with a failure
C16_Witness ==
    /\ pc = "SystemInitialisationError"
    /\ Len(sortedServices) = 3
    /\ Len(startOrder) = 1
    /\ startHandshake = [first |-> "Success", retCode |-> "Failure"]

\* the dependency edges of the declared descriptors
DependencyEdges ==
    UNION {{<<systemServiceCreators[i].name, d>> : d \in systemServiceCreators[i].dependencies} :
               i \in 1..Len(systemServiceCreators)}

\* a chain of one or more dependency edges leads from a to b
DependsOn(a, b) ==
    \E k \in 1..(MaxCreators + 1) :
        \E path \in [1..(k + 1) -> ServiceNames] :
            /\ path[1] = a
            /\ path[k + 1] = b
            /\ \A i \in 1..k : <<path[i], path[i + 1]>> \in DependencyEdges

Acyclic == \A n \in ServiceNames : ~DependsOn(n, n)

\* every dependency names one of the declared descriptors
DependenciesDeclared ==
    \A i \in 1..Len(systemServiceCreators) :
        \A d \in systemServiceCreators[i].dependencies :
            \E j \in 1..Len(systemServiceCreators) : systemServiceCreators[j].name = d

\* order holds every declared descriptor once, each after all it depends on
ValidStartOrder(order) ==
    /\ Len(order) = Len(systemServiceCreators)
    /\ \A i \in 1..Len(systemServiceCreators) :
           \E p \in 1..Len(order) :
               /\ order[p] = systemServiceCreators[i].name
               /\ \A d \in systemServiceCreators[i].dependencies :
                      \E q \in 1..(p - 1) : order[q] = d

SortDone == pc # "StartSystemServices"

\* C17 as stated: the sort yields a start order exactly when the dependency
\* relation is acyclic; a yielded order places every descriptor after all
\* it depends on; after a failed sort no service is started or registered.
C17_SortsIffAcyclic ==
    SortDone =>
        /\ (pc # "SortError") = Acyclic
        /\ pc # "SortError" => ValidStartOrder(sortedServices)
        /\ pc = "SortError" => (servicesList = <<>> /\ startOrder = <<>>)

\* C17: the sort yields a start order exactly when the dependency relation
\* is acyclic and every dependency names a declared descriptor; a yielded
\* order places every descriptor after all it depends on; after a failed
\* sort no service is started or registered.
C17_SortsIffAcyclicAndDeclared ==
    SortDone =>
        /\ (pc # "SortError") = (Acyclic /\ DependenciesDeclared)
        /\ pc # "SortError" => ValidStartOrder(sortedServices)
        /\ pc = "SortError" => (servicesList = <<>> /\ startOrder = <<>>)

\* three services started in an order that is not the declared one
C17_Witness ==
    /\ pc = "Running"
    /\ Len(startOrder) = 3
    /\ startOrder[1] # systemServiceCreators[1].name
    /\ systemServiceCreators[1].dependencies # {}

\* C18: no name occurs more than once in the services collection.
C18_UniqueNames ==
    \A i, j \in 1..Len(servicesList) : servicesList[i] = servicesList[j] => i = j

\* C19: every loop over servicesList runs under serviceDestroyMutex, and no
\* append, reversal or erase by another thread changes the list while the
\* system manager is in the middle of such a loop.
C19_CommonGuard ==
    /\ (iteration # NoIteration /\ iteration.position <= Len(servicesList)) =>
           serviceDestroyMutex = "SystemManager"
    /\ ~interfered

\* the step takes a start-allowed query from the head of the mailbox
TakesQuery ==
    /\ mailbox # <<>>
    /\ Head(mailbox).type = "CheckIfStartAllowedMessage"
    /\ mailbox' = Tail(mailbox)

\* the verdict that goes with the battery level
VerdictSent ==
    /\ levelState = "Normal" => startAllowed' = "Regular"
    /\ levelState = "Shutdown" => startAllowed' = "LowBattery"
    /\ levelState = "CriticalNotCharging" => startAllowed' = "LowBattery"
    /\ levelState = "CriticalCharging" => startAllowed' = "LowBatteryCharging"

\* C20 as stated: every start-allowed query taken from the mailbox is
\* answered with the verdict of the battery level, and leaves the state and
\* the registry as they are.
C20_EveryQueryAnswered ==
    [][TakesQuery => (VerdictSent /\ UNCHANGED <<state, servicesList>>)]_vars

\* C20: a start-allowed query that the system manager executes is answered
\* with the one verdict of the battery level; a query taken from the mailbox
\* in state Shutdown is dropped without a verdict; no other step sends a
\* verdict, and no query changes the state or the registry.
C20_HandledQueryAnswered ==
    [][/\ Executes("CheckIfStartAllowedMessage") => VerdictSent
       /\ (TakesQuery /\ state = "Shutdown") => startAllowed' = "None"
       /\ TakesQuery => UNCHANGED <<state, servicesList>>
       /\ ~TakesQuery => startAllowed' = "None"]_vars

\* a query at the Shutdown level: low-battery verdict, shutdown timer started
C20_Witness ==
    /\ startAllowed = "LowBattery"
    /\ levelState = "Shutdown"
    /\ lowBatteryShutdownDelay
    /\ state = "Running"

\* C21: a start-allowed query starts the low-battery timer exactly when the
\* level is Shutdown and the timer is not active, and stops it never; the
\* timer's expiry starts a close round with reason LowBattery; every step
\* that starts a close round, whatever its reason, leaves the timer stopped.
C21_LowBatteryTimer ==
    [][/\ Executes("CheckIfStartAllowedMessage") =>
              /\ InSeq(TimerStart, effects') = (levelState = "Shutdown" /\ ~lowBatteryShutdownDelay)
              /\ lowBatteryShutdownDelay' = (lowBatteryShutdownDelay \/ levelState = "Shutdown")
       /\ ~Executes("CheckIfStartAllowedMessage") =>
              /\ ~InSeq(TimerStart, effects')
              /\ lowBatteryShutdownDelay' => lowBatteryShutdownDelay
       /\ (closeRound'.reason # "None" /\ mailbox' = mailbox) =>
              (lowBatteryShutdownDelay /\ closeRound'.reason = "LowBattery")
       /\ closeRound'.reason # "None" => ~lowBatteryShutdownDelay']_vars

\* the timer, started at level Shutdown, expired after the level had recovered
C21_Witness ==
    /\ closeRound.reason = "LowBattery"
    /\ levelState = "Normal"
    /\ ~lowBatteryShutdownDelay
    /\ readyForCloseRegister # <<>>

\* C22: the handler of a battery-state-change message acts on the current
\* level alone: at the two critical levels the radio is powered off and the
\* critical-level notification carries charging = true for
\* CriticalCharging, false for CriticalNotCharging; at Normal the radio is
\* powered on and the critical-cleared notification is sent; at Shutdown a
\* close round with reason LowBattery starts and nothing else is sent.
C22_BatteryLevelRules ==
    [][Executes("BatteryStateChangeMessage") =>
          /\ levelState = "CriticalCharging" =>
                 /\ effects' = <<<<cellular, "ChangeModulePowerState", "Off">>,
                                 <<appmgr, "CriticalBatteryLevelNotification", "charging">>>>
                 /\ closeRound'.reason = "None"
          /\ levelState = "CriticalNotCharging" =>
                 /\ effects' = <<<<cellular, "ChangeModulePowerState", "Off">>,
                                 <<appmgr, "CriticalBatteryLevelNotification", "notCharging">>>>
                 /\ closeRound'.reason = "None"
          /\ levelState = "Normal" =>
                 /\ effects' = <<<<cellular, "ChangeModulePowerState", "On">>,
                                 <<appmgr, "CriticalBatteryLevelNotification", "cleared">>>>
                 /\ closeRound'.reason = "None"
          /\ levelState = "Shutdown" =>
                 /\ effects' = <<>>
                 /\ closeRound'.reason = "LowBattery"]_vars

\* the critical level was reached on the charger
C22_Witness ==
    /\ levelState = "CriticalCharging"
    /\ InSeq(<<appmgr, "CriticalBatteryLevelNotification", "charging">>, effects)
    /\ InSeq(<<cellular, "ChangeModulePowerState", "Off">>, effects)

\* the request is a rejected one: a phone-mode change while tethering is on,
\* or a tethering request while the battery level is not Normal
Rejected ==
    \/ Executes("PhoneModeRequest") /\ tethering = "On"
    \/ Executes("TetheringStateRequest") /\ levelState # "Normal"

\* C23: a rejected request (a phone-mode change while tethering is on, a
\* tethering on or off request while the battery level is not Normal) leaves
\* the phone mode and the tethering mode unchanged and makes the handler
\* send a rejection notification.
C23_RejectionNotified ==
    [][Rejected => (UNCHANGED PhoneModeSubject /\ effects' # <<>>)]_vars

\* C24: at battery level Normal a request to turn tethering on leaves the
\* tethering mode as it is and sends the confirmation question to the
\* application manager; the mode turns On only in the step that handles
\* the tethering-enabled confirmation; a request to turn it off is applied
\* in its handler, which sends the forced phone-mode refresh to the event
\* manager exactly when the mode changed.
C24_TetheringRoundTrip ==
    [][/\ (Executes("TetheringStateRequest") /\ levelState = "Normal"
                                              /\ Head(mailbox).code = "On") =>
              /\ tethering' = tethering
              /\ effects' = <<<<appmgr, "TetheringQuestionRequest", "None">>>>
       /\ (tethering = "Off" /\ tethering' = "On") =>
              Executes("TetheringEnabledResponse")
       /\ Executes("TetheringEnabledResponse") => tethering' = "On"
       /\ (Executes("TetheringStateRequest") /\ levelState = "Normal"
                                              /\ Head(mailbox).code = "Off") =>
              /\ tethering' = "Off"
              /\ InSeq(<<evt_manager, "RequestPhoneModeForceUpdate", "None">>, effects')
                     = (tethering = "On")]_vars

\* tethering was on and has just been turned off by a request
C24_Witness ==
    /\ tethering = "Off"
    /\ levelState = "Normal"
    /\ effects = <<<<evt_manager, "RequestPhoneModeForceUpdate", "None">>>>

\* C25: once RunSystemService has returned false (the Start request failed
\* or timed out) the service is not in the registry: the registry holds
\* exactly the services whose start succeeded.
C25_FailedStartNotRegistered ==
    pc = "SystemInitialisationError" => servicesList = startOrder

\* C26: the destroy pass of a regular close round sends the Exit requests
\* to the services that are not on the regular-close whitelist in the
\* reverse of the order in which they were started; a whitelisted service
\* gets no Exit request, is not killed and stays registered.
C26_DestroyInReverseStartOrder ==
    [][destroyPass'.whitelist = "regularClose" =>
          /\ destroyPass'.exits =
                 SelectSeq(Reverse(startOrder), LAMBDA n : n \notin regularClose_whitelist)
          /\ \A i \in 1..Len(servicesList) :
                 servicesList[i] \in regularClose_whitelist =>
                     /\ ~InSeq(servicesList[i], destroyPass'.exits)
                     /\ ~InSeq(servicesList[i], destroyPass'.kills)
                     /\ InSeq(servicesList[i], servicesList')]_vars

\* C27: whenever the state is Shutdown, every registered service is on the
\* regular-close whitelist and the pending-ack register is empty.
C27_ShutdownRegistry ==
    state = "Shutdown" =>
        /\ \A i \in 1..Len(servicesList) : servicesList[i] \in regularClose_whitelist
        /\ readyForCloseRegister = <<>>

\* C28: the state never becomes Running again once it has left Running, and
\* never changes once it is ShutdownReady, Reboot or RebootToUpdate; a
\* watchdog expiry or an acknowledgment after a reboot request does not
\* bring it to Shutdown.
C28_StateMonotonic ==
    [][/\ state # "Running" => state' # "Running"
       /\ state \in {"ShutdownReady", "Reboot", "RebootToUpdate"} => state' = state]_vars

\* a reboot was requested while services were registered: Run() has handed
\* off with the watchdog armed and acknowledgments still pending
C28_Witness ==
    /\ state \in {"Reboot", "RebootToUpdate"}
    /\ servicesPreShutdownRoutineTimeout
    /\ readyForCloseRegister # <<>>
    /\ powerAction # "None"

\* the step handles the acknowledgment that empties the pending-ack register
LastAcknowledgment ==
    /\ Executes("ReadyToCloseMessage")
    /\ readyForCloseRegister # <<>>
    /\ servicesPreShutdownRoutineTimeout
    /\ EraseRemove(readyForCloseRegister, Head(mailbox).sender) = <<>>

\* C29: the destroy phase of a close round runs at most once.  The last
\* acknowledgment stops the watchdog and runs the phase; the phase leaves
\* the register empty and the state Shutdown, and it runs only on the
\* watchdog's expiry in state Running or on the last acknowledgment; the
\* register is filled again only by the broadcast of a new round; an
\* acknowledgment handled with the register empty runs no destroy pass and
\* changes neither the state nor the registry.
C29_DestroyOncePerRound ==
    [][/\ LastAcknowledgment =>
              /\ ~servicesPreShutdownRoutineTimeout'
              /\ destroyPass'.whitelist = "regularClose"
       /\ destroyPass'.whitelist = "regularClose" =>
              /\ readyForCloseRegister' = <<>>
              /\ state' = "Shutdown"
              /\ LastAcknowledgment \/ (state = "Running" /\ pc' # pc /\ mailbox' = mailbox)
       /\ Len(readyForCloseRegister') > Len(readyForCloseRegister) =>
              closeRound'.reason # "None"
       /\ (Executes("ReadyToCloseMessage") /\ readyForCloseRegister = <<>>) =>
              /\ destroyPass'.whitelist = "None"
              /\ UNCHANGED <<state, servicesList, readyForCloseRegister>>]_vars

\* the destroy phase has run on the watchdog's expiry (the watchdog is still
\* armed, the register empty) and an acknowledgment of the event manager
\* arrives afterwards, which the Shutdown loop is about to execute
C29_Witness ==
    /\ state = "Shutdown"
    /\ pc = "ShutdownPop"
    /\ servicesPreShutdownRoutineTimeout
    /\ readyForCloseRegister = <<>>
    /\ servicesList = <<evt_manager>>
    /\ mailbox # <<>>
    /\ Head(mailbox).type = "ReadyToCloseMessage"
    /\ Head(mailbox).sender = evt_manager

\* C30: DestroySystemService(evt_manager), called by Run() after its loops,
\* returns true only when the Exit request succeeded and the name is
\* registered, and then one entry of that name is erased and no other;
\* when it returns false the registry is unchanged; no service is killed
\* either way, so the event manager can still be registered at the hand-off.
C30_SingleDestroy ==
    [][(pc = "PowerOff" /\ pc' = "Done") =>
          /\ effects' = <<<<"DestroySystemService", "returned", "true">>>> =>
                 \E i \in 1..Len(servicesList) :
                     /\ servicesList[i] = evt_manager
                     /\ servicesList' = SubSeq(servicesList, 1, i - 1)
                                            \o SubSeq(servicesList, i + 1, Len(servicesList))
          /\ effects' # <<<<"DestroySystemService", "returned", "true">>>> =>
                 /\ effects' = <<<<"DestroySystemService", "returned", "false">>>>
                 /\ servicesList' = servicesList
          /\ ~InSeq(evt_manager, servicesList) =>
                 effects' = <<<<"DestroySystemService", "returned", "false">>>>
          /\ destroyPass'.kills = <<>>]_vars

\* the Exit request to the event manager failed: it is still registered
\* when the power primitive is invoked
C30_Witness ==
    /\ pc = "Done"
    /\ powerAction # "None"
    /\ effects = <<<<"DestroySystemService", "returned", "false">>>>
    /\ InSeq(evt_manager, servicesList)

\* C31: a key-press or battery-status-change message changes the state only
\* when the state is Shutdown; handled in any other state it leaves the
\* state, the registry and the pending-ack register as they are.
C31_KeyAndStatusOnlyInShutdown ==
    [][(Executes("KbdMessage") \/ Executes("BatteryStatusChangeMessage")) =>
          /\ state' # state => state = "Shutdown"
          /\ state # "Shutdown" =>
                 UNCHANGED <<state, servicesList, readyForCloseRegister>>]_vars

\* a red-key message is at the head of the mailbox of the Running loop in
\* the middle of a close round: services registered, acknowledgments pending
C31_Witness ==
    /\ state = "Running"
    /\ pc = "Running"
    /\ mailbox # <<>>
    /\ Head(mailbox).type = "KbdMessage"
    /\ servicesList # <<>>
    /\ readyForCloseRegister # <<>>
    /\ servicesPreShutdownRoutineTimeout

====
